---------------------------- MODULE Spec2Model ----------------------------
(***************************************************************************)
(* The on-chain AI agent: the AIAgent ledger contract (contract.sol) and   *)
(* the React frontend that creates tasks, listens for TaskCreated and      *)
(* posts each notification to the off-chain processor (App.jsx).           *)
(*                                                                         *)
(* A Solidity/JS string that holds generated content is the record         *)
(* [text, len]: its content and its length in characters (ASCII, so the    *)
(* byte length is the same number).  Topics are plain strings.             *)
(* Every mined transaction is a block of its own.                          *)
(***************************************************************************)
EXTENDS Integers, Sequences, FiniteSets, Bags

\* ---------------------------------------------------------------- bounds
MaxTasks  == 2         \* createTask transactions that are mined
MaxEvents == 3         \* events the contract emits in all

\* ------------------------------------------------- documented size limits
MaxChars == 5000
MaxBytes == 10240

\* the frontend processes (browser tabs), each with its own signer
Procs == {1}

\* address(0), the signer of each frontend, and the account of any other client
ZeroAddress == "0x0"
Signer(p)   == IF p = 1 THEN "0xA1" ELSE IF p = 2 THEN "0xA2" ELSE "0xA3"
Worker      == "0xB0"

Str(t, n)  == [text |-> t, len |-> n]
EmptyStr   == Str("", 0)
Topics     == {"", "ai"}
Results    == {EmptyStr, Str("a", 1), Str("XL", 10241)}

\* mapping(uint256 => Task): the keys the model looks at
Keys == 0..(MaxTasks + 1)

\* struct Task { id; topic; result; requester }
Task(id, topic, result, requester) ==
    [id |-> id, topic |-> topic, result |-> result, requester |-> requester]

\* the value of a mapping slot that was never written
ZeroTask == Task(0, "", EmptyStr, ZeroAddress)

\* event TaskCreated(uint256 id, string topic, address requester)
TaskCreated(id, topic, requester) ==
    [name |-> "TaskCreated", id |-> id, topic |-> topic,
     result |-> EmptyStr, requester |-> requester]

\* event TaskCompleted(uint256 id, string result)
TaskCompleted(id, result) ==
    [name |-> "TaskCompleted", id |-> id, topic |-> "",
     result |-> result, requester |-> ZeroAddress]

\* useState(null)
Null == <<"null">>

\* BigNumber.toString(): the decimal digits of n
Digit(d) == CASE d = 0 -> "0" [] d = 1 -> "1" [] d = 2 -> "2" [] d = 3 -> "3"
              [] d = 4 -> "4" [] d = 5 -> "5" [] d = 6 -> "6" [] d = 7 -> "7"
              [] d = 8 -> "8" [] d = 9 -> "9"

RECURSIVE toString(_)
toString(n) == IF n < 10 THEN <<Digit(n)>>
               ELSE toString(n \div 10) \o <<Digit(n % 10)>>

\* the uint256 ethers encodes for a decimal string argument
DigitValue(c) == CHOOSE d \in 0..9 : Digit(d) = c

RECURSIVE ParseUint(_)
ParseUint(s) == IF Len(s) = 0 THEN 0
                ELSE 10 * ParseUint(SubSeq(s, 1, Len(s) - 1)) + DigitValue(s[Len(s)])

\* JS truthiness of the taskId state: null and "" are falsy
Truthy(v) == v # Null /\ v # <<>>

VARIABLES
    taskCounter,   \* contract: uint256 public taskCounter
    tasks,         \* contract: mapping(uint256 => Task) public tasks
    events,        \* the contract's event log, in emission order
    lastStatus,    \* outcome of the last transaction the ledger executed
    hasWallet,     \* per process: window.ethereum is present
    topic,         \* per process: the topic input box
    taskId,        \* per process: the taskId state
    result,        \* per process: the result state
    pendingTx,     \* per process: createTask transactions sent, not yet mined
    confirmed,     \* per process: createTask calls whose tx.wait() is about to resume
    listeners,     \* per process: the registered TaskCreated listeners (their cursors)
    posts          \* the POSTs made to /process_task (a bag of request bodies)

ledger   == <<taskCounter, tasks, events>>
history  == <<lastStatus>>
frontend == <<hasWallet, topic, taskId, result, pendingTx, confirmed, listeners,
              posts>>
vars     == <<taskCounter, tasks, events, lastStatus, hasWallet, topic, taskId,
              result, pendingTx, confirmed, listeners, posts>>

Init ==
    /\ taskCounter = 0
    /\ tasks = [k \in Keys |-> ZeroTask]
    /\ events = <<>>
    /\ lastStatus = "none"
    /\ hasWallet \in [Procs -> BOOLEAN]
    /\ topic = [p \in Procs |-> ""]
    /\ taskId = [p \in Procs |-> Null]
    /\ result = [p \in Procs |-> EmptyStr]
    /\ pendingTx = [p \in Procs |-> <<>>]
    /\ confirmed = [p \in Procs |-> 0]
    /\ listeners = [p \in Procs |-> <<>>]
    /\ posts = EmptyBag

\* ------------------------------------------------------------ contract.sol

\* function getTask(uint256 _id) public view returns (Task memory)
getTask(_id) == tasks[_id]

\* createTask with the record stored before the counter is incremented
createTask_storeBeforeIncrement(sender, _topic) ==
    /\ taskCounter' = taskCounter + 1
    /\ tasks' = [tasks EXCEPT ![taskCounter] =
                     Task(taskCounter, _topic, EmptyStr, sender)]
    /\ events' = Append(events, TaskCreated(taskCounter, _topic, sender))
    /\ lastStatus' = "success"

\* createTask that emits its event before the counter is incremented
createTask_emitsBeforeIncrement(sender, _topic) ==
    /\ taskCounter' = taskCounter + 1
    /\ tasks' = [tasks EXCEPT ![taskCounter + 1] =
                     Task(taskCounter + 1, _topic, EmptyStr, sender)]
    /\ events' = Append(events, TaskCreated(taskCounter, _topic, sender))
    /\ lastStatus' = "success"

\* function createTask(string memory _topic) public
createTask(sender, _topic) ==
    /\ taskCounter' = taskCounter + 1
    /\ tasks' = [tasks EXCEPT ![taskCounter + 1] =
                     Task(taskCounter + 1, _topic, EmptyStr, sender)]
    /\ events' = Append(events, TaskCreated(taskCounter + 1, _topic, sender))
    /\ lastStatus' = "success"

\* completeTask without its require
completeTask_noRequire(_id, _result) ==
    /\ tasks' = [tasks EXCEPT ![_id].result = _result]
    /\ events' = Append(events, TaskCompleted(_id, _result))
    /\ UNCHANGED taskCounter
    /\ lastStatus' = "success"

\* completeTask that stores a rebuilt struct instead of assigning one field
completeTask_rebuildsRecord(_id, _result) ==
    IF tasks[_id].id # 0
    THEN /\ tasks' = [tasks EXCEPT ![_id] = Task(_id, "", _result, tasks[_id].requester)]
         /\ events' = Append(events, TaskCompleted(_id, _result))
         /\ UNCHANGED taskCounter
         /\ lastStatus' = "success"
    ELSE /\ UNCHANGED ledger
         /\ lastStatus' = "Task does not exist"

\* completeTask that refuses a task whose result is already set
completeTask_onceOnly(_id, _result) ==
    IF tasks[_id].id # 0 /\ tasks[_id].result = EmptyStr
    THEN /\ tasks' = [tasks EXCEPT ![_id].result = _result]
         /\ events' = Append(events, TaskCompleted(_id, _result))
         /\ UNCHANGED taskCounter
         /\ lastStatus' = "success"
    ELSE /\ UNCHANGED ledger
         /\ lastStatus' = "Task does not exist"

\* function completeTask(uint256 _id, string memory _result) public
\* a failed require reverts the transaction: no state change, no event
completeTask(_id, _result) ==
    IF tasks[_id].id # 0
    THEN /\ tasks' = [tasks EXCEPT ![_id].result = _result]
         /\ events' = Append(events, TaskCompleted(_id, _result))
         /\ UNCHANGED taskCounter
         /\ lastStatus' = "success"
    ELSE /\ UNCHANGED ledger
         /\ lastStatus' = "Task does not exist"

\* the TaskCreated events of the log, in order: what contract.on("TaskCreated") filters
IsTaskCreated(e) == e.name = "TaskCreated"
CreatedLog == SelectSeq(events, IsTaskCreated)

\* ------------------------------------------------------- ledger transactions

\* a createTask transaction of frontend p is mined (same-sender transactions in
\* nonce order); its tx.wait() will resume
MineCreate(p) ==
    /\ pendingTx[p] # <<>>
    /\ Len(events) < MaxEvents
    /\ createTask(Signer(p), Head(pendingTx[p]))
    /\ pendingTx' = [pendingTx EXCEPT ![p] = Tail(pendingTx[p])]
    /\ confirmed' = [confirmed EXCEPT ![p] = confirmed[p] + 1]
    /\ UNCHANGED <<hasWallet, topic, taskId, result, listeners, posts>>

RECURSIVE SumLen(_, _)
SumLen(f, S) == IF S = {} THEN 0
                ELSE LET x == CHOOSE y \in S : TRUE IN Len(f[x]) + SumLen(f, S \ {x})
PendingCount == SumLen(pendingTx, Procs)

\* any other client calls createTask on the public contract
DirectCreate(t) ==
    /\ Len(events) < MaxEvents
    /\ taskCounter + PendingCount < MaxTasks
    /\ createTask(Worker, t)
    /\ UNCHANGED frontend

\* any account calls completeTask on the public contract (the contract never
\* reads msg.sender there)
CompleteTaskCall(id, r) ==
    /\ Len(events) < MaxEvents
    /\ completeTask(id, r)
    /\ UNCHANGED frontend

\* ------------------------------------------------------------------ App.jsx

\* onChange of the topic input
SetTopic(p, t) ==
    /\ topic[p] # t
    /\ topic' = [topic EXCEPT ![p] = t]
    /\ UNCHANGED <<ledger, history, hasWallet, taskId, result, pendingTx, confirmed,
                   listeners, posts>>

\* createTask with contract.on moved before the transaction is sent
ClickSubmit_registersFirst(p) ==
    /\ IF ~hasWallet[p]
       THEN UNCHANGED <<pendingTx, listeners>>
       ELSE /\ listeners' = [listeners EXCEPT ![p] = Append(listeners[p], Len(CreatedLog))]
            /\ \/ /\ taskCounter + PendingCount < MaxTasks
                  /\ pendingTx' = [pendingTx EXCEPT ![p] = Append(pendingTx[p], topic[p])]
               \/ UNCHANGED pendingTx
    /\ UNCHANGED <<ledger, history, hasWallet, topic, taskId, result, confirmed, posts>>

\* createTask, lines 13-19: no wallet -> alert and return; otherwise the
\* transaction carrying the current topic is sent, or the send is rejected
\* (the await at line 19 throws and the call ends)
ClickSubmit(p) ==
    /\ IF ~hasWallet[p]
       THEN UNCHANGED pendingTx
       ELSE \/ /\ taskCounter + PendingCount < MaxTasks
               /\ pendingTx' = [pendingTx EXCEPT ![p] = Append(pendingTx[p], topic[p])]
            \/ UNCHANGED pendingTx
    /\ UNCHANGED <<ledger, history, hasWallet, topic, taskId, result, confirmed,
                   listeners, posts>>

\* createTask, line 20: tx.wait() throws (the transaction is dropped or
\* replaced and never confirms); the call ends
DropTx(p) ==
    /\ pendingTx[p] # <<>>
    /\ pendingTx' = [pendingTx EXCEPT ![p] = SubSeq(pendingTx[p], 1, Len(pendingTx[p]) - 1)]
    /\ UNCHANGED <<ledger, history, hasWallet, topic, taskId, result, confirmed,
                   listeners, posts>>

\* where a listener registered now starts in the TaskCreated log: after every
\* event already emitted, or, when the latest block is still the current one
\* at the provider's first poll, before the events of that block
StartCursors ==
    {Len(CreatedLog)} \cup
    (IF events # <<>> /\ IsTaskCreated(events[Len(events)])
     THEN {Len(CreatedLog) - 1} ELSE {})

\* createTask, lines 20-28: tx.wait() returned; contract.on registers one more
\* TaskCreated listener
RegisterListener(p) ==
    /\ confirmed[p] > 0
    /\ confirmed' = [confirmed EXCEPT ![p] = confirmed[p] - 1]
    /\ \E c \in StartCursors :
           listeners' = [listeners EXCEPT ![p] = Append(listeners[p], c)]
    /\ UNCHANGED <<ledger, history, hasWallet, topic, taskId, result, pendingTx,
                   posts>>

\* the request body built from the topic state instead of the callback's
\* topic parameter
Post_inputBox(p, id, t) == [from |-> p, task_id |-> toString(id), topic |-> topic[p]]

\* the body sent to http://localhost:5000/process_task
Post(p, id, t) == [from |-> p, task_id |-> toString(id), topic |-> t]

\* the callback with taskId set from the event's position in the filtered log
\* instead of its id argument
OnTaskCreated_indexAsId(p, k) ==
    /\ k \in DOMAIN listeners[p]
    /\ listeners[p][k] < Len(CreatedLog)
    /\ LET e == CreatedLog[listeners[p][k] + 1] IN
         /\ taskId' = [taskId EXCEPT ![p] = toString(listeners[p][k])]
         /\ posts' = posts (+) SetToBag({Post(p, e.id, e.topic)})
    /\ listeners' = [listeners EXCEPT ![p][k] = listeners[p][k] + 1]
    /\ UNCHANGED <<ledger, history, hasWallet, topic, result, pendingTx, confirmed>>

\* the listener callback, lines 22-28, run for the next TaskCreated event of
\* listener k of process p
OnTaskCreated(p, k) ==
    /\ k \in DOMAIN listeners[p]
    /\ listeners[p][k] < Len(CreatedLog)
    /\ LET e == CreatedLog[listeners[p][k] + 1] IN
         /\ taskId' = [taskId EXCEPT ![p] = toString(e.id)]
         /\ posts' = posts (+) SetToBag({Post(p, e.id, e.topic)})
    /\ listeners' = [listeners EXCEPT ![p][k] = listeners[p][k] + 1]
    /\ UNCHANGED <<ledger, history, hasWallet, topic, result, pendingTx, confirmed>>

\* fetchResult, lines 31-41: returns at once while taskId is falsy (without a
\* wallet the provider constructor throws); nothing else writes result, so the
\* read and setResult are one step
FetchResult(p) ==
    /\ IF ~Truthy(taskId[p]) \/ ~hasWallet[p]
       THEN UNCHANGED result
       ELSE result' = [result EXCEPT ![p] = getTask(ParseUint(taskId[p])).result]
    /\ UNCHANGED <<ledger, history, hasWallet, topic, taskId, pendingTx, confirmed,
                   listeners, posts>>

Next ==
    \/ \E p \in Procs : MineCreate(p)
    \/ \E t \in Topics : DirectCreate(t)
    \/ \E id \in Keys, r \in Results : CompleteTaskCall(id, r)
    \/ \E p \in Procs, t \in Topics : SetTopic(p, t)
    \/ \E p \in Procs : ClickSubmit(p)
    \/ \E p \in Procs : DropTx(p)
    \/ \E p \in Procs : RegisterListener(p)
    \/ \E p \in Procs, k \in 1..MaxTasks : OnTaskCreated(p, k)
    \/ \E p \in Procs : FetchResult(p)

Spec == Init /\ [][Next]_vars

\* the listener, transaction and callback steps the runtime always gets to:
\* a sent transaction is mined, tx.wait() resumes, a polled event is delivered
FairSpec ==
    /\ Init /\ [][Next]_vars
    /\ WF_vars(\E p \in Procs : MineCreate(p))
    /\ WF_vars(\E p \in Procs : RegisterListener(p))
    /\ \A p \in Procs, k \in 1..MaxTasks : WF_vars(OnTaskCreated(p, k))

\* ------------------------------------------------------------------ helpers

Existing == 1..taskCounter

RECURSIVE SumCopies(_)
SumCopies(S) == IF S = {} THEN 0
                ELSE LET b == CHOOSE x \in S : TRUE
                     IN CopiesIn(b, posts) + SumCopies(S \ {b})

\* how many POSTs process p made for task id
DispatchCount(p, id) ==
    SumCopies({b \in BagToSet(posts) : b.from = p /\ b.task_id = toString(id)})

\* how many TaskCompleted events the log holds for id
CompletedCount(id) ==
    Len(SelectSeq(events, LAMBDA e : e.name = "TaskCompleted" /\ e.id = id))

CreateStep == (\E p \in Procs : MineCreate(p)) \/ (\E t \in Topics : DirectCreate(t))

\* ------------------------------------------------------------------- claims

\* C1: within one frontend process no task id is POSTed to /process_task more
\* than once, whatever createTask invocations and notifications happened.
C1_NoDuplicateDispatch ==
    \A p \in Procs, id \in Keys : DispatchCount(p, id) <= 1

\* C2: every task whose createTask was confirmed on the ledger is eventually
\* POSTed to /process_task by the listener.  Stated for the tasks the claim
\* singles out, those a listening process created itself: such a task is
\* eventually POSTed by that process.
C2_EveryTaskDispatched ==
    \A p \in Procs, id \in 1..MaxTasks :
        (id \in Existing /\ getTask(id).requester = Signer(p))
            ~> (DispatchCount(p, id) >= 1)

\* C3: once the ledger shows a non-empty result for an id, a further
\* submission for that id is a no-op: no ledger write and no further
\* TaskCompleted event for it.
C3_IdempotentCompletion ==
    [][\A id \in Keys :
          tasks[id].result # EmptyStr =>
              /\ tasks'[id] = tasks[id]
              /\ CompletedCount(id)' = CompletedCount(id)]_vars

\* C4: a result that is non-empty keeps its value in every later state.
C4_ResultImmutable ==
    [][\A id \in Keys :
          getTask(id).result # EmptyStr => getTask(id)'.result = getTask(id).result]_vars

\* C5: the result stored for any task is within the documented size limit.
C5_ResultWithinLimit ==
    \A id \in Keys : /\ tasks[id].result.len <= MaxChars
                     /\ tasks[id].result.len <= MaxBytes

\* C6 as stated: getTask fails with NotFound for id 0 and for every id that
\* was never created.
NotFound == [error |-> "NotFound"]
C6_GetTaskNotFound ==
    \A id \in Keys : (id = 0 \/ id > taskCounter) => getTask(id) = NotFound

\* C6 as amended: getTask does not fail for id 0 or a never-created id; it
\* returns the zero-valued record (id 0), which no existing task has, and
\* fetchResult never asks for an id that does not exist.
C6_GetTaskZeroRecord ==
    /\ \A id \in Keys : (id = 0 \/ id > taskCounter) => getTask(id) = ZeroTask
    /\ \A id \in Existing : getTask(id).id = id /\ getTask(id) # ZeroTask
    /\ \A p \in Procs : Truthy(taskId[p]) => ParseUint(taskId[p]) \in Existing

C6_Witness ==
    /\ taskCounter = 1
    /\ getTask(2) = ZeroTask
    /\ \E p \in Procs : taskId[p] = toString(1) /\ result[p] # EmptyStr

\* C7: completeTask(id, result) with id 0 or id > taskCounter fails with
\* "Task does not exist", changes nothing on the ledger and emits no event.
C7_CompleteTaskUnknownFails ==
    [][\A id \in Keys, r \in Results :
          (CompleteTaskCall(id, r) /\ (id = 0 \/ id > taskCounter)) =>
              /\ lastStatus' = "Task does not exist"
              /\ taskCounter' = taskCounter
              /\ tasks' = tasks
              /\ events' = events]_vars

C7_Witness ==
    /\ lastStatus = "Task does not exist"
    /\ taskCounter >= 1
    /\ \E k \in 1..Len(events) : events[k].name = "TaskCompleted"

\* C8: the existing ids are exactly 1..taskCounter, tasks[k].id = k there and
\* the zero record elsewhere; createTask assigns taskCounter+1 with an empty
\* result; an assigned id is never reused or removed.
C8_DenseIds ==
    /\ [](/\ tasks[0] = ZeroTask
          /\ \A k \in Existing : tasks[k].id = k
          /\ \A k \in Keys \ Existing : tasks[k] = ZeroTask)
    /\ [][/\ CreateStep =>
                /\ taskCounter' = taskCounter + 1
                /\ tasks'[taskCounter + 1].id = taskCounter + 1
                /\ tasks'[taskCounter + 1].result = EmptyStr
          /\ taskCounter' >= taskCounter
          /\ \A k \in Existing : tasks'[k].id = k]_vars

C8_Witness ==
    /\ taskCounter = 2
    /\ tasks[1].id = 1 /\ tasks[2].id = 2
    /\ tasks[1].result # EmptyStr
    /\ tasks[3] = ZeroTask

\* C9: a successful completeTask(id, r) changes only the result of task id;
\* createTask leaves every existing record unchanged; topic and requester of
\* an existing task never change.
C9_Frame ==
    [][/\ \A id \in Keys, r \in Results :
             (CompleteTaskCall(id, r) /\ lastStatus' = "success") =>
                 /\ tasks' = [tasks EXCEPT ![id].result = r]
                 /\ taskCounter' = taskCounter
       /\ CreateStep => \A k \in Existing : tasks'[k] = tasks[k]
       /\ \A k \in Existing : /\ tasks'[k].topic = tasks[k].topic
                              /\ tasks'[k].requester = tasks[k].requester
                              /\ tasks'[k].id = tasks[k].id]_vars

C9_Witness ==
    /\ taskCounter = 2
    /\ tasks[1].topic = "ai" /\ tasks[1].result # EmptyStr
    /\ tasks[2].topic = "" /\ tasks[2].result = EmptyStr
    /\ events[Len(events)].name = "TaskCompleted"

\* C10: every task that exists on the ledger has a non-empty topic.
C10_TopicNonEmpty ==
    \A k \in Existing : tasks[k].topic # ""

CreatedEvent(id) ==
    LET s == SelectSeq(events, LAMBDA e : e.name = "TaskCreated" /\ e.id = id)
    IN s[1]
LastCompletedResult(id) ==
    LET s == SelectSeq(events, LAMBDA e : e.name = "TaskCompleted" /\ e.id = id)
    IN IF s = <<>> THEN EmptyStr ELSE s[Len(s)].result

\* C12: read-after-write: for a task created with topic t by requester a and
\* assigned id i, getTask(i) returns {i, t, r, a} with r the result of the last
\* confirmed completeTask for i, and {i, t, "", a} before any; for an id never
\* created getTask does not fail and returns the zero-valued record.
C12_ReadAfterWrite ==
    /\ \A i \in Existing :
           getTask(i) = Task(i, CreatedEvent(i).topic, LastCompletedResult(i),
                             CreatedEvent(i).requester)
    /\ \A i \in Keys \ Existing : getTask(i) = ZeroTask /\ getTask(i).id = 0

C12_Witness ==
    /\ getTask(1) = Task(1, "ai", Str("a", 1), Signer(1))
    /\ getTask(2) = Task(2, "", EmptyStr, Worker)
    /\ getTask(3) = ZeroTask

\* C13: a successful createTask emits exactly one TaskCreated whose fields
\* equal the record just stored; a successful completeTask emits exactly one
\* TaskCompleted whose result equals the stored result; a failed call emits
\* nothing; TaskCreated ids are 1, 2, 3, ... in log order; every TaskCompleted
\* for an id comes after the TaskCreated for that id.
C13_EventOrdering ==
    /\ [](/\ Len(CreatedLog) = taskCounter
          /\ \A k \in 1..Len(CreatedLog) : CreatedLog[k].id = k
          /\ \A j \in 1..Len(events) :
                 events[j].name = "TaskCompleted" =>
                     \E i \in 1..(j - 1) : /\ events[i].name = "TaskCreated"
                                           /\ events[i].id = events[j].id)
    /\ [][/\ CreateStep =>
                LET t == tasks'[taskCounter'] IN
                events' = Append(events, TaskCreated(t.id, t.topic, t.requester))
          /\ \A id \in Keys, r \in Results :
                 CompleteTaskCall(id, r) =>
                     IF lastStatus' = "success"
                     THEN events' = Append(events, TaskCompleted(id, tasks'[id].result))
                     ELSE events' = events
          /\ Len(events') <= Len(events) + 1
          /\ SubSeq(events', 1, Len(events)) = events]_vars

C13_Witness ==
    /\ Len(events) = 3
    /\ events[1] = TaskCreated(1, "ai", Signer(1))
    /\ events[2] = TaskCreated(2, "", Worker)
    /\ events[3] = TaskCompleted(2, Str("XL", 10241))

\* C14: a process holds at most one registered TaskCreated listener at any
\* time, however often its createTask was invoked.
C14_SingleSubscription ==
    \A p \in Procs : Len(listeners[p]) <= 1

\* C15: every POST made by the listener carries the (id, topic) of a
\* TaskCreated notification in the log, which are the id and topic of that
\* task's ledger record; not the content of the topic input box, nor the id
\* of another task.
C15_DispatchCarriesEvent ==
    \A b \in BagToSet(posts) :
        LET id == ParseUint(b.task_id) IN
        /\ toString(id) = b.task_id
        /\ id \in Existing
        /\ \E k \in 1..Len(CreatedLog) :
               CreatedLog[k].id = id /\ CreatedLog[k].topic = b.topic
        /\ getTask(id).id = id
        /\ getTask(id).topic = b.topic

C15_Witness ==
    /\ topic[1] = ""
    /\ getTask(1).topic = "ai" /\ getTask(2).topic = ""
    /\ Post(1, 1, "ai") \in BagToSet(posts)
    /\ Post(1, 2, "") \notin BagToSet(posts)
    /\ taskId[1] = toString(1)

\* the createTask transactions of process p the ledger has confirmed
ConfirmedBy(p) ==
    Len(SelectSeq(events, LAMBDA e : e.name = "TaskCreated" /\ e.requester = Signer(p)))

\* C16: the frontend's createTask registers its listener only after its
\* transaction was sent and confirmed: every registered listener, and every
\* call about to register one, stands for one confirmed createTask of that
\* process; a call that ends for a missing wallet, a rejected send or a
\* transaction that never confirms registers no listener, makes no POST and
\* leaves taskId and result unchanged.
C16_ListenerAfterConfirmation ==
    /\ [](\A p \in Procs :
             /\ Len(listeners[p]) + confirmed[p] = ConfirmedBy(p)
             /\ ~hasWallet[p] =>
                    /\ listeners[p] = <<>> /\ pendingTx[p] = <<>> /\ confirmed[p] = 0
                    /\ taskId[p] = Null /\ result[p] = EmptyStr
                    /\ \A id \in Keys : DispatchCount(p, id) = 0)
    /\ [][\A p \in Procs :
             /\ (ClickSubmit(p) \/ DropTx(p)) =>
                    /\ listeners' = listeners /\ posts' = posts
                    /\ taskId' = taskId /\ result' = result
                    /\ taskCounter' = taskCounter
             /\ Len(listeners'[p]) > Len(listeners[p]) =>
                    /\ confirmed[p] > 0 /\ confirmed'[p] = confirmed[p] - 1
                    /\ Len(listeners'[p]) = Len(listeners[p]) + 1
                    /\ posts' = posts /\ taskId' = taskId /\ result' = result]_vars

C16_Witness ==
    /\ hasWallet[1]
    /\ ConfirmedBy(1) = 1
    /\ Len(listeners[1]) = 1 /\ confirmed[1] = 0
    /\ pendingTx[1] = <<"ai">>
    /\ posts = EmptyBag

\* C17: taskId is null or the id carried by the TaskCreated notification the
\* process received last, hence the id of an existing task; fetchResult reads
\* nothing while taskId is null and otherwise reads exactly that task, never
\* id 0 or an id that was not created.
C17_TaskIdExists ==
    /\ [](\A p \in Procs :
             taskId[p] # Null =>
                 /\ Truthy(taskId[p])
                 /\ toString(ParseUint(taskId[p])) = taskId[p]
                 /\ ParseUint(taskId[p]) \in Existing
                 /\ DispatchCount(p, ParseUint(taskId[p])) >= 1)
    /\ [][\A p \in Procs :
             /\ taskId'[p] # taskId[p] =>
                    \E k \in DOMAIN listeners[p] :
                        /\ OnTaskCreated(p, k)
                        /\ taskId'[p] = toString(CreatedLog[listeners[p][k] + 1].id)
             /\ FetchResult(p) =>
                    IF taskId[p] = Null
                    THEN result' = result
                    ELSE /\ ParseUint(taskId[p]) \in Existing
                         /\ result'[p] = getTask(ParseUint(taskId[p])).result]_vars

C17_Witness ==
    /\ taskCounter = 2
    /\ taskId[1] = toString(2)
    /\ result[1] = Str("a", 1)
    /\ getTask(2).result = Str("a", 1)
    /\ getTask(1).result = EmptyStr

\* C18: the task id a frontend process shows, which is the id fetchResult
\* reads, belongs to a task whose requester is that process's own signer,
\* also when other clients create tasks on the same ledger.
C18_OwnTaskShown ==
    \A p \in Procs :
        Truthy(taskId[p]) => getTask(ParseUint(taskId[p])).requester = Signer(p)

=============================================================================
